---- MODULE Spec2Model ----
(***************************************************************************)
(* AI Image Inpainting: the mask editor (components/ImageEditor.tsx), the  *)
(* flow around it (App.tsx) and the inpainting call                        *)
(* (services/geminiService).                                               *)
(*                                                                         *)
(* The stroke layer is the drawing canvas: a raster of 8-bit alpha values  *)
(* (the brush colour is always white, so only alpha is stored).  A pixel   *)
(* is painted by a path when its centre lies in the path (edge pixels get *)
(* no partial alpha); coordinates are kept doubled so that pixel centres   *)
(* (x + 1/2) are integers.  The image sizes are multiples of the display   *)
(* size, so that scaleX and scaleY are integers.                           *)
(*                                                                         *)
(* Spec is the whole application; EditorSpec is the editor from the        *)
(* moment it is rendered for an uploaded file.                             *)
(***************************************************************************)
EXTENDS Integers, Sequences, FiniteSets, TLC

VARIABLES
    appState,        \* App: AppState
    originalImage,   \* App: the uploaded file and its object url, or NoImage
    editedImageUrl,  \* App: the result url, or ""
    prompt,          \* App: the textarea's text, a sequence of characters
    error,           \* App: the message shown, or ""
    genPc,           \* handleGenerate's asynchronous continuation
    maskDataUrl,     \* handleGenerate: the mask it exported, or NoMask
    maskOut,         \* what the handler just run got from getMaskAsBase64
    mounted,         \* ImageEditor: is the component rendered
    imgStatus,       \* ImageEditor: the Image element of the effect
    isDrawing,       \* ImageEditor: useState(false)
    lastPoint,       \* ImageEditor: lastPointRef.current, <<>> for null
    brushSize,       \* ImageEditor: useState(40)
    canvas,          \* drawing canvas: [w, h, px], px the alpha of each pixel
    ctx,             \* drawing canvas 2d context: composite op and styles
    nDraws           \* drawOnCanvas calls since the layer was last blank

vars == <<appState, originalImage, editedImageUrl, prompt, error, genPc,
          maskDataUrl, maskOut, mounted, imgStatus, isDrawing, lastPoint,
          brushSize, canvas, ctx, nDraws>>

editorVars == <<mounted, imgStatus, isDrawing, lastPoint, brushSize, canvas,
                ctx, nDraws>>

----------------------------------------------------------------------------
(* Bounds of the model *)

\* drawOnCanvas calls allowed on one layer before it is cleared
MaxDraws == 2

(* Program and platform constants *)

BrushMin == 5
BrushMax == 150
BrushDefault == 40
\* 'rgba(255, 255, 255, 0.7)' as an 8-bit alpha
BrushAlpha == 178
Opaque == 255

\* The canvases fill a 4:3 container; its layout size in CSS pixels, and
\* where it sits in the viewport.
DisplayW == 4
DisplayH == 3
RectLeft == 10
RectTop == 20

\* Size of a canvas element that was given no width or height (the element
\* default, scaled to the model's rasters), before image.onload sizes it.
DefaultCanvasW == 8
DefaultCanvasH == 3

----------------------------------------------------------------------------
(* Values *)

\* A File is its MIME type <<type, subtype>>, whether its bytes decode as a
\* raster image, and the decoded image's natural size.
NoImage == [type |-> <<>>, decodable |-> FALSE, w |-> 0, h |-> 0]

\* The files a user may pick: two images of different sizes, a file named as
\* an image whose bytes do not decode, and a text file.
Files ==
    { [type |-> <<"image", "png">>,  decodable |-> TRUE,  w |-> 12, h |-> 9],
      [type |-> <<"image", "jpeg">>, decodable |-> TRUE,  w |-> 8,  h |-> 6],
      [type |-> <<"image", "png">>,  decodable |-> FALSE, w |-> 0,  h |-> 0],
      [type |-> <<"text", "plain">>, decodable |-> FALSE, w |-> 0,  h |-> 0] }

\* Pointer positions inside the display rectangle, in CSS pixels
DisplayPoints == { <<0, 0>>, <<1, 1>>, <<3, 2>> }

\* A mouse event carries offsetX/offsetY; a touch event carries clientX/Y
PointerEvents ==
    { [kind |-> "mouse", x |-> p[1], y |-> p[2]] : p \in DisplayPoints }
    \cup
    { [kind |-> "touch", x |-> p[1] + RectLeft, y |-> p[2] + RectTop] :
        p \in DisplayPoints }

\* Values a user may try to give the slider
RawBrushSizes == { 0, 5, 40, 150, 200 }

Pixels(w, h) == (0 .. w - 1) \X (0 .. h - 1)

BlankCanvas(w, h) == [w |-> w, h |-> h, px |-> [p \in Pixels(w, h) |-> 0]]

NoCanvas == [w |-> 0, h |-> 0, px |-> <<>>]

DefaultCtx ==
    [globalCompositeOperation |-> "source-over",
     strokeStyle |-> "#000000", fillStyle |-> "#000000"]

NoMask == [url |-> "", w |-> 0, h |-> 0, px |-> <<>>]

----------------------------------------------------------------------------
(* Raster geometry.  Points are in buffer space; q is a pixel. *)

RoundDiv(a, b) == (2 * a + b) \div (2 * b)

\* twice the vector from point c to the centre of pixel q
DX(q, c) == 2 * q[1] + 1 - 2 * c[1]
DY(q, c) == 2 * q[2] + 1 - 2 * c[2]

\* arc(c.x, c.y, d / 2, 0, 2 PI); fill(): the disk of diameter d around c
InDisk(q, c, d) == DX(q, c) * DX(q, c) + DY(q, c) * DY(q, c) <= d * d

\* moveTo(a); lineTo(b); stroke() with lineWidth d and lineCap 'round':
\* the points within d / 2 of the segment from a to b.  zeroLen says
\* whether the rasterizer paints the caps of a zero-length line.
InSegment(q, a, b, d, zeroLen) ==
    LET ex == 2 * (b[1] - a[1])
        ey == 2 * (b[2] - a[2])
        ee == ex * ex + ey * ey
        dot == DX(q, a) * ex + DY(q, a) * ey
        cross == DX(q, a) * ey - DY(q, a) * ex
    IN  IF ee = 0
        THEN zeroLen /\ InDisk(q, a, d)
        ELSE \/ InDisk(q, a, d)
             \/ InDisk(q, b, d)
             \/ /\ 0 <= dot
                /\ dot <= ee
                /\ cross * cross <= d * d * ee

\* Compositing one source pixel of alpha s onto a destination of alpha a
SourceOver(s, a) == s + RoundDiv(a * (Opaque - s), Opaque)
SourceAtop(s, a) == a
DestinationOut(s, a) == RoundDiv(a * (Opaque - s), Opaque)

Composite(op, s, a) ==
    IF op = "source-atop" THEN SourceAtop(s, a) ELSE SourceOver(s, a)

StyleAlpha(style) ==
    IF style = "rgba(255, 255, 255, 0.7)" THEN BrushAlpha ELSE Opaque

----------------------------------------------------------------------------
(* ImageEditor *)

\* canvas.getBoundingClientRect()
Rect == [left |-> RectLeft, top |-> RectTop, width |-> DisplayW, height |-> DisplayH]

\* CurrentPoint without lines 28-29: the display position taken as is
CurrentPoint_NoScale(e, cv) ==
    IF e.kind = "touch"
    THEN << e.x - Rect.left, e.y - Rect.top >>
    ELSE << e.x, e.y >>

\* drawOnCanvas, lines 27-38: the event's position in buffer space
CurrentPoint(e, cv) ==
    LET scaleX == cv.w \div Rect.width
        scaleY == cv.h \div Rect.height
    IN  IF e.kind = "touch"
        THEN << (e.x - Rect.left) * scaleX, (e.y - Rect.top) * scaleY >>
        ELSE << e.x * scaleX, e.y * scaleY >>

\* ctx.stroke() of the line from a to b, of width d
StrokeLine(cv, c, a, b, d, zeroLen) ==
    [cv EXCEPT !.px = [q \in DOMAIN cv.px |->
        IF InSegment(q, a, b, d, zeroLen)
        THEN Composite(c.globalCompositeOperation, StyleAlpha(c.strokeStyle), cv.px[q])
        ELSE cv.px[q]]]

\* ctx.arc(p, d / 2, 0, 2 PI); ctx.fill()
FillArc(cv, c, p, d) ==
    [cv EXCEPT !.px = [q \in DOMAIN cv.px |->
        IF InDisk(q, p, d)
        THEN Composite(c.globalCompositeOperation, StyleAlpha(c.fillStyle), cv.px[q])
        ELSE cv.px[q]]]

\* The styles drawOnCanvas sets (lineWidth, lineCap and lineJoin are set
\* before every use too, and are passed to the paths directly).
BrushCtx(c) ==
    [c EXCEPT !.strokeStyle = "rgba(255, 255, 255, 0.7)",
              !.fillStyle = "rgba(255, 255, 255, 0.7)"]

\* DrawnCanvas with the brush size of the first render in place of the
\* current one
DrawnCanvas_FirstBrushSize(e, lp, zeroLen) ==
    LET cur == CurrentPoint(e, canvas)
        c == BrushCtx(ctx)
        lined == IF lp # <<>>
                 THEN StrokeLine(canvas, c, lp, cur, BrushDefault, zeroLen)
                 ELSE canvas
    IN  FillArc(lined, c, cur, BrushDefault)

\* DrawnCanvas without lines 49-54: dots only
DrawnCanvas_NoLine(e, lp, zeroLen) ==
    FillArc(canvas, BrushCtx(ctx), CurrentPoint(e, canvas), brushSize)

\* The drawing canvas after drawOnCanvas(e) with last point lp
DrawnCanvas(e, lp, zeroLen) ==
    LET cur == CurrentPoint(e, canvas)
        c == BrushCtx(ctx)
        lined == IF lp # <<>>
                 THEN StrokeLine(canvas, c, lp, cur, brushSize, zeroLen)
                 ELSE canvas
    IN  FillArc(lined, c, cur, brushSize)

drawOnCanvas(e, lp, zeroLen) ==
    /\ nDraws' = nDraws + 1
    /\ lastPoint' = CurrentPoint(e, canvas)
    /\ ctx' = BrushCtx(ctx)
    /\ canvas' = DrawnCanvas(e, lp, zeroLen)

\* startDrawing without line 65
startDrawing_NoReset(e) ==
    /\ mounted
    /\ nDraws < MaxDraws
    /\ isDrawing' = TRUE
    /\ drawOnCanvas(e, lastPoint, FALSE)
    /\ maskOut' = NoMask
    /\ UNCHANGED <<appState, originalImage, editedImageUrl, prompt, error,
                   genPc, maskDataUrl, mounted, imgStatus, brushSize>>

startDrawing(e) ==
    /\ mounted
    /\ nDraws < MaxDraws
    /\ isDrawing' = TRUE
    /\ drawOnCanvas(e, <<>>, FALSE)
    /\ maskOut' = NoMask
    /\ UNCHANGED <<appState, originalImage, editedImageUrl, prompt, error,
                   genPc, maskDataUrl, mounted, imgStatus, brushSize>>

\* stopDrawing without line 71
stopDrawing_KeepsPoint ==
    /\ mounted
    /\ isDrawing' = FALSE
    /\ maskOut' = NoMask
    /\ UNCHANGED <<appState, originalImage, editedImageUrl, prompt, error,
                   genPc, maskDataUrl, mounted, imgStatus, lastPoint,
                   brushSize, canvas, ctx, nDraws>>

\* stopDrawing with setIsDrawing(!isDrawing)
stopDrawing_Toggle ==
    /\ mounted
    /\ isDrawing' = ~isDrawing
    /\ lastPoint' = <<>>
    /\ maskOut' = NoMask
    /\ UNCHANGED <<appState, originalImage, editedImageUrl, prompt, error,
                   genPc, maskDataUrl, mounted, imgStatus, brushSize, canvas,
                   ctx, nDraws>>

stopDrawing ==
    /\ mounted
    /\ isDrawing' = FALSE
    /\ lastPoint' = <<>>
    /\ maskOut' = NoMask
    /\ UNCHANGED <<appState, originalImage, editedImageUrl, prompt, error,
                   genPc, maskDataUrl, mounted, imgStatus, brushSize, canvas,
                   ctx, nDraws>>

\* handleDrawing without line 75
handleDrawing_NoGuard(e, zeroLen) ==
    /\ mounted
    /\ nDraws < MaxDraws
    /\ drawOnCanvas(e, lastPoint, zeroLen)
    /\ UNCHANGED isDrawing
    /\ maskOut' = NoMask
    /\ UNCHANGED <<appState, originalImage, editedImageUrl, prompt, error,
                   genPc, maskDataUrl, mounted, imgStatus, brushSize>>

handleDrawing(e, zeroLen) ==
    /\ mounted
    /\ IF ~isDrawing
       THEN UNCHANGED <<isDrawing, lastPoint, canvas, ctx, nDraws>>
       ELSE /\ nDraws < MaxDraws
            /\ drawOnCanvas(e, lastPoint, zeroLen)
            /\ UNCHANGED isDrawing
    /\ maskOut' = NoMask
    /\ UNCHANGED <<appState, originalImage, editedImageUrl, prompt, error,
                   genPc, maskDataUrl, mounted, imgStatus, brushSize>>

\* ClearRect with the rectangle taken from the layout size, not the buffer
ClearRect_DisplaySize(cv) ==
    [cv EXCEPT !.px = [q \in DOMAIN cv.px |->
        IF q[1] < Rect.width /\ q[2] < Rect.height THEN 0 ELSE cv.px[q]]]

\* ctx.clearRect(0, 0, canvas.width, canvas.height)
ClearRect(cv) == [cv EXCEPT !.px = [q \in DOMAIN cv.px |-> 0]]

clearMask ==
    /\ mounted
    /\ nDraws' = 0
    /\ maskOut' = NoMask
    /\ canvas' = ClearRect(canvas)
    /\ UNCHANGED <<appState, originalImage, editedImageUrl, prompt, error,
                   genPc, maskDataUrl, mounted, imgStatus, isDrawing,
                   lastPoint, brushSize, ctx>>

\* RangeValue of an input without min and max
RangeValue_NoClamp(raw) == raw

\* <input type="range" min="5" max="150">: the element keeps its value in
\* [min, max]; onChange stores parseInt of it.
RangeValue(raw) ==
    IF raw < BrushMin THEN BrushMin
    ELSE IF raw > BrushMax THEN BrushMax ELSE raw

setBrushSize(raw) ==
    /\ mounted
    /\ brushSize' = RangeValue(raw)
    /\ maskOut' = NoMask
    /\ UNCHANGED <<appState, originalImage, editedImageUrl, prompt, error,
                   genPc, maskDataUrl, mounted, imgStatus, isDrawing,
                   lastPoint, canvas, ctx, nDraws>>

\* image.onload of the effect: sizes both canvases (which also resets
\* their bitmaps and contexts) and draws the image on the lower one.
imageOnload ==
    /\ mounted
    /\ imgStatus = "loading"
    /\ originalImage.decodable
    /\ imgStatus' = "loaded"
    /\ canvas' = BlankCanvas(originalImage.w, originalImage.h)
    /\ ctx' = DefaultCtx
    /\ nDraws' = 0
    /\ maskOut' = NoMask
    /\ UNCHANGED <<appState, originalImage, editedImageUrl, prompt, error,
                   genPc, maskDataUrl, mounted, isDrawing, lastPoint,
                   brushSize>>

\* ExportedCtx without lines 141-143
ExportedCtx_NoRestore(c) ==
    [globalCompositeOperation |-> "source-atop",
     strokeStyle |-> "#ffffff", fillStyle |-> "#ffffff"]

\* What getMaskAsBase64 leaves in the drawing context: it sets the
\* composite operation and the styles, draws, and puts the old values back.
ExportedCtx(c) ==
    LET originalCompositeOp == c.globalCompositeOperation
        originalStroke == c.strokeStyle
        originalFill == c.fillStyle
        during == [globalCompositeOperation |-> "source-atop",
                   strokeStyle |-> "#ffffff", fillStyle |-> "#ffffff"]
    IN  [during EXCEPT !.globalCompositeOperation = originalCompositeOp,
                       !.strokeStyle = originalStroke,
                       !.fillStyle = originalFill]

\* One pixel of the mask canvas, <<grey, alpha>>, from the stroke layer's
\* alpha a at that pixel: fillRect in black, drawImage under
\* 'destination-out', drawImage under 'source-over', and the
\* un-premultiplied value toDataURL writes.
MaskPixel(a) ==
    LET black == Opaque
        punched == DestinationOut(a, black)
        alpha == SourceOver(a, punched)
        white == a
    IN  << IF alpha = 0 THEN 0 ELSE RoundDiv(white * Opaque, alpha), alpha >>

PngPrefix == "data:image/png;base64,"

\* maskCanvas.toDataURL('image/png') for the drawing canvas cv: the prefix
\* and the image the payload encodes; "data:," for a canvas with no pixels.
MaskAsBase64(cv) ==
    IF cv.w = 0 \/ cv.h = 0
    THEN [url |-> "data:,", w |-> cv.w, h |-> cv.h, px |-> <<>>]
    ELSE [url |-> PngPrefix, w |-> cv.w, h |-> cv.h,
          px |-> [q \in DOMAIN cv.px |-> MaskPixel(cv.px[q])]]

\* getMaskAsBase64 with line 139 drawing into drawingCtx as well
getMaskAsBase64_DrawsOnLayer ==
    /\ mounted
    /\ ctx' = ExportedCtx(ctx)
    /\ UNCHANGED <<appState, originalImage, editedImageUrl, prompt, error,
                   genPc, maskDataUrl, mounted, imgStatus, isDrawing,
                   lastPoint, brushSize, nDraws>>
    /\ canvas' = [canvas EXCEPT !.px = [q \in DOMAIN canvas.px |->
                     SourceOver(canvas.px[q], canvas.px[q])]]
    /\ maskOut' = MaskAsBase64(canvas)

\* A call of the ref's getMaskAsBase64
getMaskAsBase64 ==
    /\ mounted
    /\ ctx' = ExportedCtx(ctx)
    /\ UNCHANGED <<appState, originalImage, editedImageUrl, prompt, error,
                   genPc, maskDataUrl, mounted, imgStatus, isDrawing,
                   lastPoint, brushSize, canvas, nDraws>>
    /\ maskOut' = MaskAsBase64(canvas)

\* The component as first rendered for an image, and as removed
EditorMounts ==
    /\ mounted' = TRUE
    /\ imgStatus' = "loading"
    /\ isDrawing' = FALSE
    /\ lastPoint' = <<>>
    /\ brushSize' = BrushDefault
    /\ canvas' = BlankCanvas(DefaultCanvasW, DefaultCanvasH)
    /\ ctx' = DefaultCtx
    /\ nDraws' = 0

EditorUnmounts ==
    /\ mounted' = FALSE
    /\ imgStatus' = "none"
    /\ isDrawing' = FALSE
    /\ lastPoint' = <<>>
    /\ brushSize' = BrushDefault
    /\ canvas' = NoCanvas
    /\ ctx' = DefaultCtx
    /\ nDraws' = 0

----------------------------------------------------------------------------
(* App *)

ErrInvalidFile == "Please upload a valid image file (PNG, JPG, etc.)."
ErrNoPrompt == "Please enter a description of the edit you want to make."
ErrNoArea == "Please select an area on the image to edit by drawing on it."

\* Texts the user may type
Prompts == { <<>>, <<" ">>, <<"a", " ">> }

RECURSIVE TrimStart(_)
TrimStart(s) ==
    IF s # <<>> /\ Head(s) = " " THEN TrimStart(Tail(s)) ELSE s

RECURSIVE TrimEnd(_)
TrimEnd(s) ==
    IF s # <<>> /\ s[Len(s)] = " " THEN TrimEnd(SubSeq(s, 1, Len(s) - 1)) ELSE s

\* Trim that strips nothing: the test !prompt
Trim_Nothing(s) == s

\* String.prototype.trim
Trim(s) == TrimEnd(TrimStart(s))

\* IsImageType that takes any file with a type
IsImageType_AnyType(type) == type # <<>>

\* file.type.startsWith('image/')
IsImageType(type) == type # <<>> /\ type[1] = "image"

handleImageUpload(file) ==
    /\ appState = "UPLOADING"
    /\ IF IsImageType(file.type)
       THEN /\ originalImage' = file
            /\ appState' = "EDITING"
            /\ error' = ""
            /\ EditorMounts
       ELSE /\ error' = ErrInvalidFile
            /\ UNCHANGED <<originalImage, appState>>
            /\ UNCHANGED editorVars
    /\ maskOut' = NoMask
    /\ UNCHANGED <<editedImageUrl, prompt, genPc, maskDataUrl>>

setPrompt(text) ==
    /\ appState \in {"EDITING", "ERROR"}
    /\ prompt' = text
    /\ maskOut' = NoMask
    /\ UNCHANGED <<appState, originalImage, editedImageUrl, error, genPc,
                   maskDataUrl>>
    /\ UNCHANGED editorVars

\* The synchronous part of handleGenerate, up to reader.readAsDataURL; the
\* render that follows it removes the editor when the state is GENERATING.
handleGenerate ==
    /\ appState \in {"EDITING", "ERROR"}
    /\ IF Trim(prompt) = <<>>
       THEN /\ error' = ErrNoPrompt
            /\ maskOut' = NoMask
            /\ UNCHANGED <<appState, originalImage, editedImageUrl, prompt,
                           genPc, maskDataUrl>>
            /\ UNCHANGED editorVars
       ELSE IF originalImage = NoImage \/ ~mounted
       THEN /\ maskOut' = NoMask
            /\ UNCHANGED <<appState, originalImage, editedImageUrl, prompt,
                           error, genPc, maskDataUrl>>
            /\ UNCHANGED editorVars
       ELSE /\ maskOut' = MaskAsBase64(canvas)
            /\ IF maskOut'.url # PngPrefix
               THEN /\ error' = ErrNoArea
                    /\ appState' = "EDITING"
                    /\ ctx' = ExportedCtx(ctx)
                    /\ UNCHANGED <<originalImage, editedImageUrl, prompt,
                                   genPc, maskDataUrl, mounted, imgStatus,
                                   isDrawing, lastPoint, brushSize, canvas,
                                   nDraws>>
               ELSE /\ appState' = "GENERATING"
                    /\ error' = ""
                    /\ maskDataUrl' = maskOut'
                    /\ genPc' = "reading"
                    /\ EditorUnmounts
                    /\ UNCHANGED <<originalImage, editedImageUrl, prompt>>

\* reader.onloadend: the file was read (ok) or not; with the data it calls
\* editImageWithMask, which reaches ai.models.generateContent; without, the
\* call throws before the request and the callback's promise is rejected.
readerOnloadend(ok) ==
    /\ genPc = "reading"
    /\ genPc' = IF ok THEN "calling" ELSE "rejected"
    /\ maskOut' = NoMask
    /\ UNCHANGED <<appState, originalImage, editedImageUrl, prompt, error,
                   maskDataUrl>>
    /\ UNCHANGED editorVars

\* editImageWithMask returns the image of the response
editImageWithMaskResolves ==
    /\ genPc = "calling"
    /\ editedImageUrl' = "data:image/png;base64,edited"
    /\ appState' = "DISPLAYING_RESULT"
    /\ genPc' = "idle"
    /\ maskDataUrl' = NoMask
    /\ maskOut' = NoMask
    /\ UNCHANGED <<originalImage, prompt, error>>
    /\ UNCHANGED editorVars

\* editImageWithMask throws ("AI generation failed: ..."); nothing awaits
\* the callback, so no state is set.
editImageWithMaskRejects ==
    /\ genPc = "calling"
    /\ genPc' = "rejected"
    /\ maskOut' = NoMask
    /\ UNCHANGED <<appState, originalImage, editedImageUrl, prompt, error,
                   maskDataUrl>>
    /\ UNCHANGED editorVars

\* startOver without line 94
startOver_KeepsEdited ==
    /\ appState = "DISPLAYING_RESULT"
    /\ appState' = "UPLOADING"
    /\ originalImage' = NoImage
    /\ prompt' = <<>>
    /\ error' = ""
    /\ maskOut' = NoMask
    /\ UNCHANGED <<editedImageUrl, genPc, maskDataUrl>>
    /\ UNCHANGED editorVars

startOver ==
    /\ appState = "DISPLAYING_RESULT"
    /\ appState' = "UPLOADING"
    /\ originalImage' = NoImage
    /\ editedImageUrl' = ""
    /\ prompt' = <<>>
    /\ error' = ""
    /\ maskOut' = NoMask
    /\ UNCHANGED <<genPc, maskDataUrl>>
    /\ UNCHANGED editorVars

----------------------------------------------------------------------------

\* What a rasterizer may do with the line of event e: only a line from the
\* last point to itself leaves it a choice.
ZeroLenChoices(e) ==
    IF lastPoint = CurrentPoint(e, canvas) THEN BOOLEAN ELSE {FALSE}

Init ==
    /\ appState = "UPLOADING"
    /\ originalImage = NoImage
    /\ editedImageUrl = ""
    /\ prompt = <<>>
    /\ error = ""
    /\ genPc = "idle"
    /\ maskDataUrl = NoMask
    /\ maskOut = NoMask
    /\ mounted = FALSE
    /\ imgStatus = "none"
    /\ isDrawing = FALSE
    /\ lastPoint = <<>>
    /\ brushSize = BrushDefault
    /\ canvas = NoCanvas
    /\ ctx = DefaultCtx
    /\ nDraws = 0

Next ==
    \/ \E file \in Files : handleImageUpload(file)
    \/ \E text \in Prompts : setPrompt(text)
    \/ handleGenerate
    \/ \E ok \in BOOLEAN : readerOnloadend(ok)
    \/ editImageWithMaskResolves
    \/ editImageWithMaskRejects
    \/ startOver
    \/ imageOnload
    \/ \E e \in PointerEvents : startDrawing(e)
    \/ \E e \in PointerEvents :
          \E zeroLen \in ZeroLenChoices(e) : handleDrawing(e, zeroLen)
    \/ stopDrawing
    \/ \E raw \in RawBrushSizes : setBrushSize(raw)
    \/ clearMask
    \/ getMaskAsBase64

Spec == Init /\ [][Next]_vars

\* The browser completes the file read, and the service call settles.
LiveSpec ==
    /\ Spec
    /\ WF_vars(\E ok \in BOOLEAN : readerOnloadend(ok))
    /\ WF_vars(editImageWithMaskResolves \/ editImageWithMaskRejects)

\* The editor alone: it has just been rendered for an uploaded file of an
\* image type, and only its own handlers, the image's load and calls of
\* its ref run.
EditorInit ==
    /\ appState = "EDITING"
    /\ originalImage \in { file \in Files : IsImageType(file.type) }
    /\ editedImageUrl = ""
    /\ prompt = <<>>
    /\ error = ""
    /\ genPc = "idle"
    /\ maskDataUrl = NoMask
    /\ maskOut = NoMask
    /\ mounted = TRUE
    /\ imgStatus = "loading"
    /\ isDrawing = FALSE
    /\ lastPoint = <<>>
    /\ brushSize = BrushDefault
    /\ canvas = BlankCanvas(DefaultCanvasW, DefaultCanvasH)
    /\ ctx = DefaultCtx
    /\ nDraws = 0

EditorNext ==
    \/ imageOnload
    \/ \E e \in PointerEvents : startDrawing(e)
    \/ \E e \in PointerEvents :
          \E zeroLen \in ZeroLenChoices(e) : handleDrawing(e, zeroLen)
    \/ stopDrawing
    \/ \E raw \in RawBrushSizes : setBrushSize(raw)
    \/ clearMask
    \/ getMaskAsBase64

EditorSpec == EditorInit /\ [][EditorNext]_vars

----------------------------------------------------------------------------
(* Properties *)

White == << Opaque, Opaque >>
Black == << 0, Opaque >>

Covered(cv) == { q \in DOMAIN cv.px : cv.px[q] > 0 }

\* The pixels of a w x h raster whose centres lie in the disk of diameter
\* d around p
DiskPixels(p, d, w, h) ==
    { q \in Pixels(w, h) :
        (2 * q[1] + 1 - 2 * p[1]) * (2 * q[1] + 1 - 2 * p[1])
        + (2 * q[2] + 1 - 2 * p[2]) * (2 * q[2] + 1 - 2 * p[2]) <= d * d }

IsBlackMask(m, w, h) ==
    /\ m.url = PngPrefix
    /\ m.w = w
    /\ m.h = h
    /\ DOMAIN m.px = Pixels(w, h)
    /\ \A q \in Pixels(w, h) : m.px[q] = Black

\* C1: every pixel of the mask exported from the layer of a loaded image is
\* opaque white or opaque black, and it is white exactly where the stroke
\* layer has non-zero alpha.
C1_MaskIsBinary ==
    (maskOut.url = PngPrefix /\ imgStatus = "loaded") =>
        \A q \in DOMAIN maskOut.px :
            /\ maskOut.px[q] \in {White, Black}
            /\ maskOut.px[q] = White <=> canvas.px[q] > 0

\* C2: the inpainting service is never called with an all-black mask (here:
\* of a loaded image, whose mask has the image's size).
C2_NoEmptyMaskToService ==
    (genPc = "calling" /\ maskDataUrl.w = originalImage.w
                      /\ maskDataUrl.h = originalImage.h) =>
        \E q \in DOMAIN maskDataUrl.px : maskDataUrl.px[q] # Black

\* C3: clearMask leaves a layer whose export is the all-black mask of the
\* layer's size, whatever was painted before; and exporting a layer with no
\* covered pixel returns that all-black mask.
C3_ClearThenExportIsBlack ==
    [][ /\ clearMask => IsBlackMask(MaskAsBase64(canvas'), canvas.w, canvas.h)
        /\ (Covered(canvas) = {} /\ getMaskAsBase64) =>
               IsBlackMask(maskOut', canvas.w, canvas.h) ]_vars

\* A mask exported from a layer that was painted on the loaded 12 x 9 image
\* (the last point <<9, 6>> only arises there) and then cleared
C3_Witness ==
    /\ imgStatus = "loaded"
    /\ canvas.w = 12
    /\ lastPoint = <<9, 6>>
    /\ nDraws = 0
    /\ IsBlackMask(maskOut, 12, 9)

\* C4: an export that directly follows an export returns the same mask.
C4_ExportTwiceSame ==
    [][ (mounted /\ maskOut # NoMask /\ getMaskAsBase64) => maskOut' = maskOut ]_vars

\* The mask of a painted layer was just returned, and the editor is still
\* there for the next call
C4_Witness ==
    /\ mounted
    /\ maskOut.url = PngPrefix
    /\ Covered(canvas) # {}
    /\ Covered(canvas) # DOMAIN canvas.px

\* C5: the first stamp of a stroke adds the disk at its point and nothing
\* else, wherever the previous stroke ended and whether or not it was ended.
C5_BeginStrokeOnlyStampsDisk ==
    [][ \A e \in PointerEvents :
          startDrawing(e) =>
            LET B == CurrentPoint(e, canvas)
                disk == DiskPixels(B, brushSize, canvas.w, canvas.h)
            IN  /\ Covered(canvas') = Covered(canvas) \cup disk
                /\ \A q \in DOMAIN canvas.px \ disk : canvas'.px[q] = canvas.px[q]
      ]_vars

\* Two strokes of the smallest brush on the 12 x 9 image, the first left at
\* <<3, 3>> or <<9, 6>> and the second begun at the other: two disks, and
\* the pixels between them untouched
C5_Witness ==
    /\ canvas.w = 12
    /\ nDraws = 2
    /\ isDrawing
    /\ lastPoint \in {<<3, 3>>, <<9, 6>>}
    /\ Covered(canvas) = DiskPixels(<<3, 3>>, BrushMin, 12, 9)
                         \cup DiskPixels(<<9, 6>>, BrushMin, 12, 9)
    /\ canvas.px[<<6, 4>>] = 0

\* C6: the stroke layer and every exported mask have the width and height
\* of the source image.
C6_LayerHasSourceSize ==
    originalImage.decodable =>
        /\ mounted => canvas.w = originalImage.w /\ canvas.h = originalImage.h
        /\ maskOut.url = PngPrefix =>
               maskOut.w = originalImage.w /\ maskOut.h = originalImage.h

\* C7: an image that does not decode is reported and never edited.
C7_UndecodableNotEdited ==
    appState # "UPLOADING" => originalImage.decodable

\* C8: the brush size is 40 in a new editor, stays in [5, 150], and
\* setBrushSize stores its argument clamped to that range.
C8_BrushSizeClamped ==
    /\ brushSize = 40
    /\ [][ /\ brushSize' \in 5 .. 150
           /\ \A raw \in RawBrushSizes :
                 setBrushSize(raw) =>
                   brushSize' = IF raw < 5 THEN 5
                                ELSE IF raw > 150 THEN 150 ELSE raw
         ]_vars

C8_Witness == mounted /\ brushSize = 150 /\ nDraws > 0

\* C9: extendStroke with no stroke active changes neither the stroke layer,
\* nor the last point, nor the active flag.
C9_ExtendWithoutStrokeIsNoOp ==
    [][ \A e \in PointerEvents, zeroLen \in BOOLEAN :
          (~isDrawing /\ handleDrawing(e, zeroLen)) =>
              UNCHANGED <<canvas, lastPoint, isDrawing>> ]_vars

\* A stroke was painted and ended: the pointer now moves with no stroke
C9_Witness ==
    /\ mounted
    /\ ~isDrawing
    /\ lastPoint = <<>>
    /\ nDraws > 0
    /\ Covered(canvas) # {}

\* C10: after one stamp on the empty layer of a loaded image the white pixels of the exported
\* mask are exactly the pixels of the disk of the brush's diameter around
\* the stamp's point in buffer space.
C10_SingleStampWhiteDisk ==
    [][ \A e \in PointerEvents :
          (imgStatus = "loaded" /\ Covered(canvas) = {} /\ startDrawing(e)) =>
            LET m == MaskAsBase64(canvas')
            IN  { q \in DOMAIN m.px : m.px[q] = White }
                = DiskPixels(CurrentPoint(e, canvas), brushSize, canvas.w, canvas.h)
      ]_vars

\* C11: a pointer position (dx, dy) of a mouse or a touch event, in a
\* display of Wd x Hd over a buffer of Wb x Hb, is painted at buffer pixel
\* (dx * Wb / Wd, dy * Hb / Hd), and the last point recorded is that point.
C11_PointsScaledToBuffer ==
    [][ \A p \in DisplayPoints, zeroLen \in BOOLEAN :
          LET mouse == [kind |-> "mouse", x |-> p[1], y |-> p[2]]
              touch == [kind |-> "touch", x |-> p[1] + RectLeft,
                                          y |-> p[2] + RectTop]
              b == << (p[1] * canvas.w) \div DisplayW,
                      (p[2] * canvas.h) \div DisplayH >>
          IN  ( \/ startDrawing(mouse)
                \/ startDrawing(touch)
                \/ isDrawing /\ handleDrawing(mouse, zeroLen)
                \/ isDrawing /\ handleDrawing(touch, zeroLen) )
              => /\ lastPoint' = b
                 /\ canvas'.px[b] > 0
      ]_vars

\* On the 12 x 9 image the smallest brush at display point (3, 2) painted
\* buffer pixel (9, 6) and left buffer pixel (3, 2) alone
C11_Witness ==
    /\ imgStatus = "loaded"
    /\ canvas.w = 12
    /\ nDraws = 1
    /\ lastPoint = <<9, 6>>
    /\ canvas.px[<<9, 6>>] > 0
    /\ canvas.px[<<3, 2>>] = 0

\* C12: endStroke clears the last point and the active flag and touches
\* nothing else of the engine; called again, or with no stroke ever begun,
\* it changes nothing.
C12_EndStrokeIdempotent ==
    [][ stopDrawing =>
          /\ ~isDrawing'
          /\ lastPoint' = <<>>
          /\ UNCHANGED <<canvas, brushSize>>
          /\ (~isDrawing /\ lastPoint = <<>>) =>
                 UNCHANGED <<canvas, lastPoint, isDrawing, brushSize>>
      ]_vars

\* Two stamps were painted on the loaded image and the stroke was ended
C12_Witness ==
    /\ imgStatus = "loaded"
    /\ ~isDrawing
    /\ lastPoint = <<>>
    /\ nDraws = 2
    /\ Covered(canvas) # {}

\* The pixels of a w x h raster whose centres are no farther than d / 2
\* from the segment from a to b
CapsulePixels(a, b, d, w, h) ==
    { q \in Pixels(w, h) :
        LET qx == 2 * q[1] + 1 - 2 * a[1]
            qy == 2 * q[2] + 1 - 2 * a[2]
            ex == 2 * (b[1] - a[1])
            ey == 2 * (b[2] - a[2])
            ee == ex * ex + ey * ey
            t == qx * ex + qy * ey
        IN  IF t <= 0 THEN qx * qx + qy * qy <= d * d
            ELSE IF t >= ee
                 THEN (qx - ex) * (qx - ex) + (qy - ey) * (qy - ey) <= d * d
                 ELSE (qx * ey - qy * ex) * (qx * ey - qy * ex) <= d * d * ee }

\* C13: during a stroke extendStroke(p) adds the capsule of the brush's
\* width from the last point to p and the disk at p, nothing else, and
\* makes p the last point.
C13_ExtendAddsCapsule ==
    [][ \A e \in PointerEvents, zeroLen \in BOOLEAN :
          (isDrawing /\ handleDrawing(e, zeroLen)) =>
            LET p == CurrentPoint(e, canvas)
                added ==
                    DiskPixels(p, brushSize, canvas.w, canvas.h)
                    \cup (IF lastPoint = <<>> THEN {}
                          ELSE CapsulePixels(lastPoint, p, brushSize,
                                             canvas.w, canvas.h))
            IN  /\ Covered(canvas') = Covered(canvas) \cup added
                /\ \A q \in DOMAIN canvas.px \ added : canvas'.px[q] = canvas.px[q]
                /\ lastPoint' = p
      ]_vars

\* One stroke of the smallest brush from <<3, 3>> to <<9, 6>> on the
\* 12 x 9 image: the capsule between them and nothing else
C13_Witness ==
    /\ canvas.w = 12
    /\ nDraws = 2
    /\ isDrawing
    /\ lastPoint = <<9, 6>>
    /\ Covered(canvas) = CapsulePixels(<<3, 3>>, <<9, 6>>, BrushMin, 12, 9)
    /\ canvas.px[<<6, 4>>] > 0
    /\ canvas.px[<<0, 8>>] = 0

\* C14: the stroke layer changes only in beginStroke, in extendStroke
\* during a stroke, in clearMask and when the image loads; an export leaves
\* the layer and the drawing context as they were, and setBrushSize and
\* endStroke leave the layer as it was.
C14_LayerChangedOnlyByStrokes ==
    [][ /\ getMaskAsBase64 => UNCHANGED <<canvas, ctx>>
        /\ stopDrawing => UNCHANGED canvas
        /\ \A raw \in RawBrushSizes : setBrushSize(raw) => UNCHANGED canvas
        /\ canvas' # canvas =>
              \/ \E e \in PointerEvents : startDrawing(e)
              \/ isDrawing /\ \E e \in PointerEvents, zeroLen \in BOOLEAN :
                                 handleDrawing(e, zeroLen)
              \/ clearMask
              \/ imageOnload
      ]_vars

\* A painted layer was exported, and the context still holds the brush's
\* styles and the default composite operation
C14_Witness ==
    /\ maskOut.url = PngPrefix
    /\ imgStatus = "loaded"
    /\ Covered(canvas) # {}
    /\ ctx = [globalCompositeOperation |-> "source-over",
              strokeStyle |-> "rgba(255, 255, 255, 0.7)",
              fillStyle |-> "rgba(255, 255, 255, 0.7)"]

\* C15: whenever no stroke is in progress there is no last point.
C15_NoLastPointWithoutStroke == ~isDrawing => lastPoint = <<>>

\* A stroke of one stamp on the loaded image has been ended
C15_Witness ==
    /\ imgStatus = "loaded"
    /\ ~isDrawing
    /\ lastPoint = <<>>
    /\ nDraws = 1
    /\ Covered(canvas) # {}

\* The brush sizes the slider can hold among the values tried
StoredBrushSizes ==
    { b \in RawBrushSizes : 5 <= b /\ b <= 150 }

\* The layer cv after a stamp of diameter d at p
Stamped(cv, p, d) ==
    [cv EXCEPT !.px = [q \in DOMAIN cv.px |->
        IF q \in DiskPixels(p, d, cv.w, cv.h)
        THEN SourceOver(BrushAlpha, cv.px[q]) ELSE cv.px[q]]]

C17_GenerationTerminates ==
    (appState = "GENERATING") ~>
        (appState = "DISPLAYING_RESULT" \/ appState = "ERROR")

\* C18: UPLOADING holds no image; every other state holds the original
\* image; DISPLAYING_RESULT holds the edited image too; and startOver
\* restores the initial state.
C18_FlowHoldsItsImages ==
    /\ [](/\ appState = "UPLOADING" =>
               originalImage = NoImage /\ editedImageUrl = ""
          /\ appState \in {"EDITING", "ERROR", "GENERATING", "DISPLAYING_RESULT"} =>
               originalImage # NoImage
          /\ appState = "DISPLAYING_RESULT" => editedImageUrl # "")
    /\ [][ startOver =>
             /\ appState' = "UPLOADING"
             /\ originalImage' = NoImage
             /\ editedImageUrl' = ""
             /\ prompt' = <<>>
             /\ error' = "" ]_vars

\* A result is shown beside its original; Start Over is offered
C18_Witness ==
    /\ appState = "DISPLAYING_RESULT"
    /\ originalImage # NoImage
    /\ editedImageUrl # ""
    /\ prompt # <<>>

\* C19: a file whose type is not image/* is refused with a message, and a
\* file whose type is image/* is stored and opens the editor.
C19_UploadChecksType ==
    [][ \A file \in Files :
          handleImageUpload(file) =>
            IF file.type[1] = "image"
            THEN /\ originalImage' = file
                 /\ error' = ""
                 /\ appState' = "EDITING"
            ELSE /\ error' = ErrInvalidFile
                 /\ appState' = "UPLOADING"
                 /\ originalImage' = NoImage
      ]_vars

\* The text file was refused
C19_Witness ==
    /\ appState = "UPLOADING"
    /\ error = ErrInvalidFile
    /\ originalImage = NoImage

\* C20: Generate with a prompt of no characters other than spaces only sets
\* the message: no state change, no export, no read, no service call.
C20_EmptyPromptRejected ==
    [][ ((\A i \in 1 .. Len(prompt) : prompt[i] = " ") /\ handleGenerate) =>
          /\ error' = ErrNoPrompt
          /\ maskOut' = NoMask
          /\ UNCHANGED <<appState, originalImage, genPc, maskDataUrl, canvas,
                         mounted>>
      ]_vars

\* Generate was refused for a prompt of one space, over a painted layer
C20_Witness ==
    /\ appState = "EDITING"
    /\ error = ErrNoPrompt
    /\ prompt = <<" ">>
    /\ Covered(canvas) # {}

====
